---- MODULE Spec2Model ----
(***************************************************************************)
(* PytriNets: Petri nets, markings and the reachability graph.             *)
(*                                                                         *)
(* Three specifications share this module.                                 *)
(*   Spec      the run of reachability(initial_marking, max_iterations,    *)
(*             throw_error) over a net built with add_place and            *)
(*             add_transition: one action per pass of the while loop.      *)
(*   LiveSpec  Spec with the loop running on (weak fairness).              *)
(*   SpecMark  the operations of Marking (as_marked, __getitem__,          *)
(*             can_fire, fire, available_transitions, available_markings,  *)
(*             __eq__, __hash__) applied to Marking objects on a heap.     *)
(*                                                                         *)
(* A Marking object is the record [origin, marking]: the net it refers to  *)
(* and the dictionary it stores (a function whose DOMAIN is the set of     *)
(* stored keys; the dictionary is a defaultdict(int), so reading a key     *)
(* that is not stored yields 0 and stores the key with 0).  SpecMark       *)
(* follows the keys that reads store; in Spec the markings of the nodes    *)
(* carry the keys that as_marked and fire store, not those added by reads. *)
(* A ReachabilityNode object is an index into node_marking,                *)
(* incoming_nodes and outgoing_nodes.                                      *)
(***************************************************************************)
EXTENDS Integers, Sequences, FiniteSets, TLC

\* ---- bounds of the model ------------------------------------------------
MaxInitTok == 1      \* token counts handed to as_marked are 0..MaxInitTok
MaxIter == 4         \* max_iterations is drawn from 1..MaxIter
MaxObjs == 2         \* Marking objects alive on the heap of SpecMark
MaxHash == 2         \* hash() of a Place or a PetriNet object is in 1..MaxHash

\* ---- the universe of names ----------------------------------------------
Places == {"p1", "p2"}
TransNames == {"t1", "t2"}
MarkTransNames == {"t1"}
NetIds == {1, 2}

VARIABLES
    transitions,      \* PetriNet.__transitions: name -> [incoming_places, outgoing_places]
    initial_marking,  \* argument of reachability
    max_iterations,   \* argument of reachability
    throw_error,      \* argument of reachability
    node_marking,     \* ReachabilityNode.__marking, per node object
    incoming_nodes,   \* ReachabilityNode.__incoming_nodes, per node object
    outgoing_nodes,   \* ReachabilityNode.__outgoing_nodes, per node object
    visited,          \* dict[Marking, ReachabilityNode]: the set of its values
    queue,            \* deque[ReachabilityNode]
    dead_ends,        \* set[ReachabilityNode]
    it,               \* iteration counter
    pc,               \* "loop" | "returned" | "raised" ("mark" in SpecMark)
    graph_nodes,      \* ReachabilityGraph.__nodes of the returned graph
    heap,             \* SpecMark: the Marking objects created so far
    obj_hash,         \* SpecMark: hash() of the Place and PetriNet objects
    ret,              \* SpecMark, SpecNet: what the last operation returned
    petri_net         \* SpecNet: the PetriNet object under construction

vars == <<transitions, initial_marking, max_iterations, throw_error, node_marking,
          incoming_nodes, outgoing_nodes, visited, queue, dead_ends, it, pc,
          graph_nodes, heap, obj_hash, ret, petri_net>>

markVars == <<heap, obj_hash, ret, petri_net>>

\* ---- small helpers --------------------------------------------------------
RECURSIVE SumOver(_, _)
SumOver(S, f) ==
    IF S = {} THEN 0
    ELSE LET x == CHOOSE y \in S : TRUE IN f[x] + SumOver(S \ {x}, f)

\* the element of a one-element set
Only(S) == CHOOSE x \in S : TRUE

\* all enumerations (lists without repetition) of a finite set
Orders(S) ==
    {s \in [1..Cardinality(S) -> S] : \A i, j \in 1..Cardinality(S) : s[i] = s[j] => i = j}

\* ---- Transition and PetriNet ----------------------------------------------
\* A transition built by add_transition: both arc sets are places of the net.
TransitionShapes == [incoming_places : SUBSET Places, outgoing_places : SUBSET Places]

\* The nets add_place / add_transition can build over Places with the given names.
NetsOver(names) == UNION {[N -> TransitionShapes] : N \in SUBSET names}

\* PetriNet.compile_marking + Marking.__init__: the stored dictionary has
\* exactly the keys of the argument.
AsMarkedDicts == UNION {[S -> 0..MaxInitTok] : S \in SUBSET Places}

\* PetriNet.as_marked(marking) for a dictionary naming places of the net
AsMarked(net, d) == [origin |-> net, marking |-> d]

\* PetriNet.as_marked(None): every place stored with 0 tokens
AsMarkedNone(net) == [origin |-> net, marking |-> [p \in Places |-> 0]]

\* a dictionary without keys
EmptyMap == [x \in {} |-> x]

\* PetriNet(): no places, no transitions
EmptyNet == [places |-> {}, places_map |-> EmptyMap,
             transitions |-> {}, transitions_map |-> EmptyMap]

\* ---- Marking ----------------------------------------------------------------
\* Marking.__getitem__ / defaultdict(int) read: value of self.__marking[place]
Tokens(m, place) == IF place \in DOMAIN m.marking THEN m.marking[place] ELSE 0

\* (mutant) can_fire satisfied by a token on any one incoming place
CanFireAnyMut(m, t) == \E place \in transitions[t].incoming_places : Tokens(m, place) > 0

\* (mutant) can_fire accepting an empty incoming place
CanFireMut(m, t) == \A place \in transitions[t].incoming_places : Tokens(m, place) >= 0

\* Marking.can_fire
CanFire(m, t) == \A place \in transitions[t].incoming_places : Tokens(m, place) > 0

\* (mutant) fire adding a token only to the outgoing places that are not
\* incoming places
FireMut(m, t) ==
    LET inc == transitions[t].incoming_places
        out == transitions[t].outgoing_places \ transitions[t].incoming_places
    IN [origin |-> m.origin,
        marking |-> [place \in DOMAIN m.marking \cup inc \cup out |->
                        Tokens(m, place)
                        - (IF place \in inc THEN 1 ELSE 0)
                        + (IF place \in out THEN 1 ELSE 0)]]

\* Marking.fire: copy the dictionary, -= 1 per incoming place, += 1 per
\* outgoing place (each access on the copy stores the key).
Fire(m, t) ==
    LET inc == transitions[t].incoming_places
        out == transitions[t].outgoing_places
        keys == DOMAIN m.marking \cup inc \cup out
    IN [origin |-> m.origin,
        marking |-> [place \in keys |->
                        Tokens(m, place)
                        - (IF place \in inc THEN 1 ELSE 0)
                        + (IF place \in out THEN 1 ELSE 0)]]

\* (mutant) __eq__ comparing the stored dictionaries themselves
MarkingEqMut(m1, m2) == m1.origin = m2.origin /\ m1.marking = m2.marking

\* Marking.__eq__: same origin, and the same count on every place of the net
MarkingEq(m1, m2) ==
    /\ m1.origin = m2.origin
    /\ \A place \in Places : Tokens(m1, place) = Tokens(m2, place)

\* (mutant) __hash__ adding hash(place) and tokens instead of multiplying them
MarkingHashMut(m, h) ==
    h.net[m.origin] + SumOver(DOMAIN m.marking, [place \in DOMAIN m.marking |->
                                                   h.place[place] + m.marking[place]])

\* Marking.__hash__, given the hashes of the net and place objects
MarkingHash(m, h) ==
    h.net[m.origin] + SumOver(DOMAIN m.marking, [place \in DOMAIN m.marking |->
                                                   h.place[place] * m.marking[place]])

\* Marking._compute_available_transitions, the transitions of the pairs
\* (mutant) every transition of the net is taken as available
AvailableTransitionsMut(m) == DOMAIN transitions

AvailableTransitions(m) == {t \in DOMAIN transitions : CanFire(m, t)}

\* Marking._compute_available_transitions, the markings of the pairs
FiredMarkings(m) == {Fire(m, t) : t \in AvailableTransitions(m)}

\* A Python set built from the markings S keeps one element per class of
\* __eq__: R is such a set.
IsMarkingSetOf(R, S) ==
    /\ R \subseteq S
    /\ \A x, y \in R : MarkingEq(x, y) => x = y
    /\ \A x \in S : \E y \in R : MarkingEq(x, y)

\* ---- Marking: what the calls leave in the stored dictionaries -----------------
\* self.__marking[place] on the defaultdict stores the key when it is missing
ReadKey(m, place) ==
    IF place \in DOMAIN m.marking THEN m
    ELSE [m EXCEPT !.marking = [q \in DOMAIN m.marking \cup {place} |->
                                   IF q = place THEN 0 ELSE m.marking[q]]]

RECURSIVE ReadKeys(_, _)
ReadKeys(m, S) ==
    IF S = {} THEN m
    ELSE LET place == CHOOSE q \in S : TRUE IN ReadKeys(ReadKey(m, place), S \ {place})

\* Marking.can_fire, the receiver afterwards: all() stops at the first incoming
\* place without a token, in the iteration order of the set; the places read
\* before it hold tokens and are stored already.
CanFireAfter(m, t) ==
    IF CanFire(m, t) THEN {m}
    ELSE {ReadKey(m, place) :
             place \in {q \in transitions[t].incoming_places : Tokens(m, q) <= 0}}

\* (mutant) fire working on the receiver's dictionary instead of a copy
ReceiverAfterFireMut(m, t) == Fire(m, t)

\* Marking.fire, the receiver afterwards: line 173 copies the dictionary, the
\* receiver keeps its own
ReceiverAfterFire(m, t) == m

\* Marking._compute_available_transitions over the transitions in iteration
\* order: the possible outcomes [after |-> the receiver afterwards, pairs |-> the
\* (transition, marking) pairs]
RECURSIVE ComputeAvailable(_, _, _)
ComputeAvailable(m, pairs, order) ==
    IF order = <<>> THEN {[after |-> m, pairs |-> pairs]}
    ELSE LET t == Head(order) IN
         IF CanFire(m, t)
         THEN ComputeAvailable(ReceiverAfterFire(m, t), pairs \cup {<<t, Fire(m, t)>>},
                               Tail(order))
         ELSE UNION {ComputeAvailable(m2, pairs, Tail(order)) : m2 \in CanFireAfter(m, t)}

\* Marking.__eq__, the places read: the loop over the places of the net returns
\* at the first place where the counts differ
EqReads(m1, m2, order) ==
    IF m1.origin # m2.origin THEN {}
    ELSE LET diff == {k \in 1..Len(order) : Tokens(m1, order[k]) # Tokens(m2, order[k])}
             last == IF diff = {} THEN Len(order)
                     ELSE CHOOSE k \in diff : \A j \in diff : k <= j
         IN {order[k] : k \in 1..last}

\* ---- ReachabilityNode ------------------------------------------------------
\* ReachabilityNode.__eq__ (and __hash__): nodes compare by their markings
NodeEq(nm, a, b) == MarkingEq(nm[a], nm[b])

\* set.add on a set of ReachabilityNode: an element equal to n keeps its place
SetAddNode(nm, S, n) == IF \E x \in S : NodeEq(nm, x, n) THEN S ELSE S \cup {n}

\* node in S, for a Python set S of ReachabilityNode
NodeIn(nm, n, S) == \E x \in S : NodeEq(nm, x, n)

\* marking in visited
VisitedHas(nm, vis, m) == \E n \in vis : MarkingEq(nm[n], m)

\* visited[marking]
VisitedGet(nm, vis, m) == CHOOSE n \in vis : MarkingEq(nm[n], m)

\* visited[current.marking] = current
VisitedSet(nm, vis, current) ==
    {n \in vis : ~MarkingEq(nm[n], nm[current])} \cup {current}

\* set(...) of the nodes S: the sets that keep one node per class of
\* ReachabilityNode.__eq__ (S itself when no two of its nodes are equal)
NodeSetsOf(nm, S) ==
    IF \A x, y \in S : NodeEq(nm, x, y) => x = y THEN {S}
    ELSE {R \in SUBSET S :
            /\ \A x, y \in R : NodeEq(nm, x, y) => x = y
            /\ \A x \in S : \E y \in R : NodeEq(nm, x, y)}

\* ---- reachability ------------------------------------------------------------
\* (mutant) a node found in visited is reused but not linked
LinkSuccessorMut(st, vis, current, marking) ==
    IF VisitedHas(st.nm, vis, marking) THEN st
    ELSE [nm |-> Append(st.nm, marking),
          inc |-> Append(st.inc, {current}),
          out |-> [Append(st.out, {}) EXCEPT ![current] = @ \cup {Len(st.nm) + 1}],
          q |-> Append(st.q, Len(st.nm) + 1)]

\* (mutant) a node is created for every marking, visited or not
FindOrCreateMut(st, vis, marking) ==
    [st |-> [nm |-> Append(st.nm, marking),
             inc |-> Append(st.inc, {}),
             out |-> Append(st.out, {}),
             q |-> Append(st.q, Len(st.nm) + 1)],
     new_node |-> Len(st.nm) + 1]

\* Lines 106-110: the node for a marking, taken from visited or created and
\* enqueued; st carries the node objects and the queue.
FindOrCreate(st, vis, marking) ==
    IF VisitedHas(st.nm, vis, marking)
    THEN [st |-> st, new_node |-> VisitedGet(st.nm, vis, marking)]
    ELSE [st |-> [nm |-> Append(st.nm, marking),
                  inc |-> Append(st.inc, {}),
                  out |-> Append(st.out, {}),
                  q |-> Append(st.q, Len(st.nm) + 1)],
          new_node |-> Len(st.nm) + 1]

\* Lines 111-112: current.add_outgoing_node(new_node); new_node.add_incoming_node(current)
LinkNodes(st, current, new_node) ==
    [st EXCEPT !.out[current] = SetAddNode(st.nm, @, new_node),
               !.inc[new_node] = SetAddNode(st.nm, @, current)]

\* Lines 105-112, the body of "for marking in available_markings" for one marking
LinkSuccessor(st, vis, current, marking) ==
    Only({LinkNodes(found.st, current, found.new_node) :
             found \in {FindOrCreate(st, vis, marking)}})

\* Lines 105-112, the whole for loop, over the markings in iteration order
RECURSIVE ForLoop(_, _, _, _)
ForLoop(st, vis, current, order) ==
    IF order = <<>> THEN st
    ELSE Only({ForLoop(next, vis, current, Tail(order)) :
                  next \in {LinkSuccessor(st, vis, current, Head(order))}})

\* (mutant) the bound is hit only once the counter is past max_iterations
BoundHitMut(count, max) == count > max

\* Lines 114-117: the bound is hit once the counter reaches max_iterations
BoundHit(count, max) == count >= max

\* (mutant) the graph is built from the dead ends instead of the visited nodes
ReturnGraphMut(nm, vis) == pc' = "returned" /\ graph_nodes' = dead_ends

\* Line 119: ReachabilityGraph(root, set(visited.values()), dead_ends)
ReturnGraph(nm, vis) ==
    /\ pc' = "returned"
    /\ \E R \in NodeSetsOf(nm, vis) : graph_nodes' = R

\* (mutant) the head of the queue is read but left in the queue
PopLeftMut(q) == q

\* Line 97: the queue after queue.popleft()
PopLeft(q) == Tail(q)

\* Lines 96-99: the dequeued node's marking is already in visited
\* (mutant) a node whose marking is already visited takes the place of the
\* canonical node
SkipMut ==
    /\ pc = "loop"
    /\ queue # <<>>
    /\ VisitedHas(node_marking, visited, node_marking[Head(queue)])
    /\ visited' = VisitedSet(node_marking, visited, Head(queue))
    /\ queue' = PopLeft(queue)
    /\ UNCHANGED <<transitions, initial_marking, max_iterations, throw_error,
                   node_marking, incoming_nodes, outgoing_nodes, dead_ends,
                   it, pc, graph_nodes, markVars>>

Skip ==
    /\ pc = "loop"
    /\ queue # <<>>
    /\ VisitedHas(node_marking, visited, node_marking[Head(queue)])
    /\ queue' = PopLeft(queue)
    /\ UNCHANGED <<transitions, initial_marking, max_iterations, throw_error,
                   node_marking, incoming_nodes, outgoing_nodes, visited, dead_ends,
                   it, pc, graph_nodes, markVars>>

\* Lines 96-104: the dequeued node has no available marking
DeadEnd ==
    /\ pc = "loop"
    /\ queue # <<>>
    /\ LET current == Head(queue) IN
        /\ ~VisitedHas(node_marking, visited, node_marking[current])
        /\ FiredMarkings(node_marking[current]) = {}
        /\ visited' = VisitedSet(node_marking, visited, current)
        /\ dead_ends' = SetAddNode(node_marking, dead_ends, current)
    /\ queue' = PopLeft(queue)
    /\ UNCHANGED <<transitions, initial_marking, max_iterations, throw_error,
                   node_marking, incoming_nodes, outgoing_nodes, it, pc,
                   graph_nodes, markVars>>

\* Lines 96-117: the dequeued node is expanded
Expand ==
    /\ pc = "loop"
    /\ queue # <<>>
    /\ LET current == Head(queue)
           fired == FiredMarkings(node_marking[current]) IN
        /\ ~VisitedHas(node_marking, visited, node_marking[current])
        /\ fired # {}
        /\ \E available_markings \in SUBSET fired :
            /\ IsMarkingSetOf(available_markings, fired)
            /\ \E order \in Orders(available_markings) :
                \E vis \in {VisitedSet(node_marking, visited, current)} :
                \E st \in {ForLoop([nm |-> node_marking, inc |-> incoming_nodes,
                                   out |-> outgoing_nodes, q |-> PopLeft(queue)],
                                  vis, current, order)} :
                   /\ visited' = vis
                   /\ node_marking' = st.nm
                   /\ incoming_nodes' = st.inc
                   /\ outgoing_nodes' = st.out
                   /\ queue' = st.q
                   /\ it' = it + 1
                   /\ IF BoundHit(it + 1, max_iterations)
                      THEN IF throw_error
                           THEN pc' = "raised" /\ UNCHANGED graph_nodes
                           ELSE ReturnGraph(st.nm, vis)
                      ELSE UNCHANGED <<pc, graph_nodes>>
    /\ UNCHANGED <<transitions, initial_marking, max_iterations, throw_error,
                   dead_ends, markVars>>

\* Lines 96, 119: the queue is empty, the graph is returned
Return ==
    /\ pc = "loop"
    /\ queue = <<>>
    /\ ReturnGraph(node_marking, visited)
    /\ UNCHANGED <<transitions, initial_marking, max_iterations, throw_error,
                   node_marking, incoming_nodes, outgoing_nodes, visited, queue,
                   dead_ends, it, markVars>>

\* Lines 90-95, for a net built by add_place / add_transition and an initial
\* marking made by as_marked.  max_iterations <= 0 behaves as 1: the counter
\* is compared only after it has been incremented.
Init ==
    /\ transitions \in NetsOver(TransNames)
    /\ initial_marking \in {AsMarked(1, d) : d \in AsMarkedDicts}
    /\ max_iterations \in 1..MaxIter
    /\ throw_error \in BOOLEAN
    /\ node_marking = <<initial_marking>>
    /\ incoming_nodes = <<{}>>
    /\ outgoing_nodes = <<{}>>
    /\ visited = {}
    /\ queue = <<1>>
    /\ dead_ends = {}
    /\ it = 0
    /\ pc = "loop"
    /\ graph_nodes = {}
    /\ heap = <<>>
    /\ obj_hash = [net |-> [n \in NetIds |-> 1], place |-> [p \in Places |-> 1]]
    /\ ret = [op |-> "none"]
    /\ petri_net = EmptyNet

Next == Skip \/ DeadEnd \/ Expand \/ Return

Spec == Init /\ [][Next]_vars

\* ---- the operations of Marking, on the objects of the heap ---------------------
\* Neither Place nor PetriNet defines __hash__: hash() is derived from the
\* address of the object, any value, different for different objects.
Injective(f) == \A x, y \in DOMAIN f : f[x] = f[y] => x = y

HashAssignments ==
    [net : {f \in [NetIds -> 1..MaxHash] : Injective(f)},
     place : {f \in [Places -> 1..MaxHash] : Injective(f)}]

reachFrozen == <<initial_marking, max_iterations, throw_error, node_marking,
                 incoming_nodes, outgoing_nodes, visited, queue, dead_ends, it, pc,
                 graph_nodes, transitions, obj_hash, petri_net>>

reachFrozenNet == <<initial_marking, max_iterations, throw_error, node_marking,
                    incoming_nodes, outgoing_nodes, visited, queue, dead_ends, it, pc,
                    graph_nodes, transitions, obj_hash>>

\* PetriNet.as_marked(marking); as_marked(None) is the dictionary of all zeros
AsMarkedOp ==
    /\ Len(heap) < MaxObjs
    /\ \E net \in NetIds, d \in AsMarkedDicts :
          /\ heap' = Append(heap, AsMarked(net, d))
          /\ ret' = [op |-> "as_marked", value |-> Len(heap) + 1]
    /\ UNCHANGED reachFrozen

\* Marking.__getitem__
GetItemOp ==
    /\ \E i \in 1..Len(heap), place \in Places :
          /\ heap' = [heap EXCEPT ![i] = ReadKey(@, place)]
          /\ ret' = [op |-> "getitem", a |-> i, value |-> Tokens(heap[i], place)]
    /\ UNCHANGED reachFrozen

\* Marking.can_fire
CanFireOp ==
    /\ \E i \in 1..Len(heap), t \in DOMAIN transitions :
          \E after \in CanFireAfter(heap[i], t) :
              /\ heap' = [heap EXCEPT ![i] = after]
              /\ ret' = [op |-> "can_fire", a |-> i, t |-> t,
                         value |-> CanFire(heap[i], t)]
    /\ UNCHANGED reachFrozen

\* Marking.fire: the new Marking is a new object
FireOp ==
    /\ Len(heap) < MaxObjs
    /\ \E i \in 1..Len(heap), t \in DOMAIN transitions :
          /\ heap' = Append([heap EXCEPT ![i] = ReceiverAfterFire(@, t)], Fire(heap[i], t))
          /\ ret' = [op |-> "fire", a |-> i, t |-> t, value |-> Len(heap) + 1]
    /\ UNCHANGED reachFrozen

\* Marking.available_transitions
AvailableTransitionsOp ==
    /\ \E i \in 1..Len(heap), order \in Orders(DOMAIN transitions) :
          \E r \in ComputeAvailable(heap[i], {}, order) :
              /\ heap' = [heap EXCEPT ![i] = r.after]
              /\ ret' = [op |-> "available_transitions", a |-> i,
                         value |-> {pair[1] : pair \in r.pairs}]
    /\ UNCHANGED reachFrozen

\* Marking.available_markings
AvailableMarkingsOp ==
    /\ \E i \in 1..Len(heap), order \in Orders(DOMAIN transitions) :
          \E r \in ComputeAvailable(heap[i], {}, order) :
          \E R \in SUBSET {pair[2] : pair \in r.pairs} :
              /\ IsMarkingSetOf(R, {pair[2] : pair \in r.pairs})
              /\ heap' = [heap EXCEPT ![i] = r.after]
              /\ ret' = [op |-> "available_markings", a |-> i, value |-> R]
    /\ UNCHANGED reachFrozen

\* Marking.__eq__
EqOp ==
    /\ \E i, j \in 1..Len(heap), order \in Orders(Places) :
          \E reads \in {EqReads(heap[i], heap[j], order)} :
              /\ heap' = [k \in 1..Len(heap) |->
                            IF k \in {i, j} THEN ReadKeys(heap[k], reads) ELSE heap[k]]
              /\ ret' = [op |-> "eq", a |-> i, b |-> j,
                         value |-> MarkingEq(heap[i], heap[j])]
    /\ UNCHANGED reachFrozen

\* Marking.__hash__
HashOp ==
    /\ \E i \in 1..Len(heap) :
          ret' = [op |-> "hash", a |-> i, value |-> MarkingHash(heap[i], obj_hash)]
    /\ UNCHANGED <<heap, reachFrozen>>

\* Two nets built alike (distinct PetriNet objects with the places p1, p2 and the
\* same transitions), no Marking yet; hash() of the objects is any value.
MarkInit ==
    /\ transitions \in NetsOver(MarkTransNames)
    /\ obj_hash \in HashAssignments
    /\ heap = <<>>
    /\ ret = [op |-> "none"]
    /\ pc = "mark"
    /\ initial_marking = AsMarkedNone(1)
    /\ max_iterations = 0
    /\ throw_error = FALSE
    /\ node_marking = <<>>
    /\ incoming_nodes = <<>>
    /\ outgoing_nodes = <<>>
    /\ visited = {}
    /\ queue = <<>>
    /\ dead_ends = {}
    /\ it = 0
    /\ graph_nodes = {}
    /\ petri_net = EmptyNet

MarkNext ==
    \/ AsMarkedOp
    \/ GetItemOp
    \/ CanFireOp
    \/ FireOp
    \/ AvailableTransitionsOp
    \/ AvailableMarkingsOp
    \/ EqOp
    \/ HashOp

SpecMark == MarkInit /\ [][MarkNext]_vars

\* ---- what the claims speak of: token vectors and the firing rule ---------------
\* the token count a marking reports for every place of the net
TokenVector(m) == [place \in Places |-> Tokens(m, place)]

\* t is enabled at the token vector v
EnabledAt(v, t) == \A place \in Places : place \in transitions[t].incoming_places => v[place] >= 1

\* the token vector after one firing of t at v: one token less on a place that is
\* only an incoming place of t, one more on a place that is only an outgoing
\* place, the same count on every other place
FiringAt(v, t) ==
    [place \in Places |->
        LET isIn == place \in transitions[t].incoming_places
            isOut == place \in transitions[t].outgoing_places
        IN CASE isIn /\ ~isOut -> v[place] - 1
             [] isOut /\ ~isIn -> v[place] + 1
             [] OTHER -> v[place]]

\* No exploration that ends within MaxIter expansions goes deeper than this.
DepthCap == 1 + MaxIter * Cardinality(TransNames)

\* the token vectors one firing away from v
OneStep(v) == {FiringAt(v, t) : t \in {u \in DOMAIN transitions : EnabledAt(v, u)}}

\* the token vectors at most k firings away from the vectors of S
RECURSIVE Closure(_, _)
Closure(S, k) ==
    LET S2 == S \cup UNION {OneStep(v) : v \in S}
    IN IF k = 0 \/ S2 = S THEN S ELSE Closure(S2, k - 1)

ReachableVectors == Closure({TokenVector(initial_marking)}, DepthCap)

IsClosed(S) == \A v \in S : OneStep(v) \subseteq S

NodeVectors(S) == {TokenVector(node_marking[n]) : n \in S}

\* the exploration ended with an empty queue, below the iteration bound
Complete == pc = "returned" /\ it < max_iterations

\* ---- C1 ------------------------------------------------------------------------
\* C1: after an exploration that did not hit the iteration bound, graph.nodes
\* holds exactly one node per marking reachable from the initial marking: none
\* missing, none unreachable, no two nodes with equal markings.
C1_NodesAreReachableMarkings ==
    Complete =>
        /\ \E R \in {ReachableVectors} : IsClosed(R) /\ NodeVectors(graph_nodes) = R
        /\ \A a, b \in graph_nodes :
              TokenVector(node_marking[a]) = TokenVector(node_marking[b]) => a = b

\* a complete graph of several nodes in which a firing led back to a marking
\* already in the graph, stored there with a different dictionary
C1_Witness ==
    /\ Complete
    /\ Cardinality(graph_nodes) >= 2
    /\ \E n, c \in graph_nodes : \E t \in AvailableTransitions(node_marking[n]) :
          /\ c \in outgoing_nodes[n]
          /\ MarkingEq(Fire(node_marking[n], t), node_marking[c])
          /\ Fire(node_marking[n], t) # node_marking[c]

\* ---- C2 ------------------------------------------------------------------------
\* C2: in the returned graph a node is in dead_ends exactly when no transition
\* is enabled at its marking; every dead end is a node of the graph and has no
\* outgoing node.
C2_DeadEnds ==
    pc = "returned" =>
        /\ \A n \in graph_nodes :
              NodeIn(node_marking, n, dead_ends)
                <=> ~\E t \in DOMAIN transitions : EnabledAt(TokenVector(node_marking[n]), t)
        /\ \A d \in dead_ends : d \in graph_nodes /\ outgoing_nodes[d] = {}

\* a returned graph with a dead end and a node that is none
C2_Witness ==
    /\ pc = "returned"
    /\ dead_ends # {}
    /\ \E n \in graph_nodes : ~NodeIn(node_marking, n, dead_ends)

\* ---- C3 ------------------------------------------------------------------------
\* C3: after a complete exploration, m is in n.incoming_nodes exactly when n's
\* marking is one firing away from m's marking, for all nodes n, m of the graph.
C3_IncomingArePredecessors ==
    Complete =>
        \A n, m \in graph_nodes :
            NodeIn(node_marking, m, incoming_nodes[n])
              <=> TokenVector(node_marking[n]) \in OneStep(TokenVector(node_marking[m]))

\* ---- C4 ------------------------------------------------------------------------
\* C4: after a complete exploration, the markings of n.outgoing_nodes are exactly
\* the markings one firing away from n's marking, one outgoing node per marking.
C4_OutgoingAreSuccessors ==
    Complete =>
        \A n \in graph_nodes :
            /\ NodeVectors(outgoing_nodes[n]) = OneStep(TokenVector(node_marking[n]))
            /\ \A a, b \in outgoing_nodes[n] :
                  TokenVector(node_marking[a]) = TokenVector(node_marking[b]) => a = b

\* a complete graph of several nodes, with a node where two enabled transitions
\* fire to one marking
C4_Witness ==
    /\ Complete
    /\ Cardinality(graph_nodes) >= 2
    /\ \E n \in graph_nodes :
          /\ Cardinality(AvailableTransitions(node_marking[n])) = 2
          /\ Cardinality(outgoing_nodes[n]) = 1

\* ---- C5 ------------------------------------------------------------------------
\* the markings of R at which some transition is enabled: the nodes an
\* exploration of R has to expand
ExpandableIn(R) == {v \in R : \E t \in DOMAIN transitions : EnabledAt(v, t)}

\* C5 as claimed: in strict mode, whenever the whole graph can be built with at
\* most max_iterations expansions, reachability does not raise.
C5_NoRaiseWithinBudget ==
    (throw_error /\ pc = "raised") =>
        \E R \in {ReachableVectors} :
            ~(IsClosed(R) /\ Cardinality(ExpandableIn(R)) <= max_iterations)

\* C5 (amended): in strict mode reachability raises exactly when the counter of
\* expansions reaches max_iterations, also when the queue is empty by then; it
\* returns, with the complete graph, only below that count, and it does so
\* whenever fewer than max_iterations markings have an enabled transition.
C5_RaiseWhenCounterReachesBound ==
    (throw_error /\ pc # "loop") =>
        \E R \in {ReachableVectors} :
            /\ pc = "raised" =>
                  /\ it = max_iterations
                  /\ Cardinality(ExpandableIn(R)) >= max_iterations
            /\ pc = "returned" =>
                  /\ it < max_iterations
                  /\ queue = <<>>
                  /\ IsClosed(R)
                  /\ NodeVectors(graph_nodes) = R
                  /\ Cardinality(ExpandableIn(R)) = it

\* strict mode raised although the queue was empty and the graph complete
C5_Witness ==
    /\ throw_error
    /\ pc = "raised"
    /\ queue = <<>>
    /\ \E R \in {ReachableVectors} :
          /\ IsClosed(R)
          /\ NodeVectors(visited) = R
          /\ Cardinality(ExpandableIn(R)) = max_iterations

\* ---- C6 ------------------------------------------------------------------------
\* C6: in lenient mode reachability never raises; when the counter reaches
\* max_iterations it returns a graph that contains the root, only nodes with
\* reachable markings, and every node that was expanded.
C6_LenientPartialGraph ==
    ~throw_error =>
        /\ pc # "raised"
        /\ (pc = "returned" /\ it >= max_iterations) =>
              /\ 1 \in graph_nodes
              /\ node_marking[1] = initial_marking
              /\ NodeVectors(graph_nodes) \subseteq ReachableVectors
              /\ \A n \in 1..Len(node_marking) :
                    outgoing_nodes[n] # {} => n \in graph_nodes
              /\ Cardinality({n \in graph_nodes : outgoing_nodes[n] # {}}) = it

\* lenient mode returned at the bound with nodes still waiting in the queue
C6_Witness ==
    /\ ~throw_error
    /\ pc = "returned"
    /\ it >= max_iterations
    /\ queue # <<>>
    /\ \E n \in 1..Len(node_marking) : ~NodeIn(node_marking, n, graph_nodes)

\* ---- C7 ------------------------------------------------------------------------
\* a transition without incoming places and with an outgoing place
HasSourceTransition ==
    \E t \in DOMAIN transitions :
        transitions[t].incoming_places = {} /\ transitions[t].outgoing_places # {}

\* The loop runs on: a pass of the while loop that is possible is taken.
LiveSpec == Spec /\ WF_vars(Next)

\* C7: reachability ends, by returning or raising, for every net, initial
\* marking and max_iterations; in strict mode on a net with a source transition
\* it ends by raising.
C7_Terminates ==
    <>(\/ pc = "raised"
       \/ pc = "returned" /\ ~(throw_error /\ HasSourceTransition))

\* strict mode raised on a net with a source transition
C7_Witness == pc = "raised" /\ throw_error /\ HasSourceTransition

\* ---- C8 ------------------------------------------------------------------------
\* the count a stored dictionary gives a place, an absent place counting as zero
CountOrZero(d, place) == IF place \in DOMAIN d THEN d[place] ELSE 0

SameNetSameCounts(m1, m2) ==
    /\ m1.origin = m2.origin
    /\ \A place \in Places : CountOrZero(m1.marking, place) = CountOrZero(m2.marking, place)

\* C8: two markings are equal exactly when they have the same origin net and the
\* same count on every place, absent places counting as zero; equal markings
\* have the same hash, whatever keys they store; __eq__ returns that equality.
C8_EqualityAndHash ==
    /\ \A i, j \in 1..Len(heap) :
          /\ MarkingEq(heap[i], heap[j]) <=> SameNetSameCounts(heap[i], heap[j])
          /\ SameNetSameCounts(heap[i], heap[j])
                => MarkingHash(heap[i], obj_hash) = MarkingHash(heap[j], obj_hash)
    /\ ret.op = "eq" => (ret.value <=> SameNetSameCounts(heap[ret.a], heap[ret.b]))
    /\ ret.op = "hash" =>
          \A j \in 1..Len(heap) :
              SameNetSameCounts(heap[ret.a], heap[j])
                => ret.value = MarkingHash(heap[j], obj_hash)

\* hash was called on a marking that has an equal marking storing other keys
C8_Witness ==
    /\ ret.op = "hash"
    /\ \E j \in 1..Len(heap) :
          /\ j # ret.a
          /\ MarkingEq(heap[ret.a], heap[j])
          /\ DOMAIN heap[ret.a].marking # DOMAIN heap[j].marking

\* ---- C9 ------------------------------------------------------------------------
\* C9: fire(t) returns a marking over the same net with one token less on every
\* place that is only incoming, one more on every place that is only outgoing,
\* and the receiver's count on every place in both sets or in neither.
C9_FireTokenRule ==
    ret.op = "fire" =>
        /\ heap[ret.value].origin = heap[ret.a].origin
        /\ \A place \in Places :
              LET isIn == place \in transitions[ret.t].incoming_places
                  isOut == place \in transitions[ret.t].outgoing_places
                  before == CountOrZero(heap[ret.a].marking, place)
                  after == CountOrZero(heap[ret.value].marking, place)
              IN /\ (isIn /\ ~isOut) => after = before - 1
                 /\ (isOut /\ ~isIn) => after = before + 1
                 /\ (isIn <=> isOut) => after = before

\* fire was called with a transition that has a place in both sets and a place in
\* one set only
C9_Witness ==
    /\ ret.op = "fire"
    /\ \E place \in Places :
          place \in transitions[ret.t].incoming_places \cap transitions[ret.t].outgoing_places
    /\ \E place \in Places :
          (place \in transitions[ret.t].incoming_places)
            # (place \in transitions[ret.t].outgoing_places)

\* ---- C10 -----------------------------------------------------------------------
\* C10: no operation of Marking changes the origin or the token count that an
\* existing marking reports for any place.
C10_MarkingsImmutable ==
    [][\A i \in 1..Len(heap) :
          /\ heap'[i].origin = heap[i].origin
          /\ \A place \in Places :
                CountOrZero(heap'[i].marking, place) = CountOrZero(heap[i].marking, place)]_vars

\* the second marking was fired from the first and has other counts, and __eq__
\* has been called on the first since
C10_Witness ==
    /\ Len(heap) = 2
    /\ heap[1].origin = heap[2].origin
    /\ ~MarkingEq(heap[1], heap[2])
    /\ \E t \in DOMAIN transitions : Fire(heap[1], t) = heap[2]
    /\ ret.op = "eq"
    /\ ret.a = 1

\* ---- PetriNet under construction ---------------------------------------------
\* A Place object is [id, name] and a Transition object is
\* [id, name, incoming_places, outgoing_places]; id tells two objects of the
\* same name apart.

\* dict[key] = value
DictSet(d, key, value) == [x \in DOMAIN d \cup {key} |-> IF x = key THEN value ELSE d[x]]

\* Place(name)
NewPlace(n, name) == [id |-> Cardinality(n.places) + 1, name |-> name]

\* Transition(name, incoming_places, outgoing_places)
NewTransition(n, name, incoming_places, outgoing_places) ==
    [id |-> Cardinality(n.transitions) + 1, name |-> name,
     incoming_places |-> incoming_places, outgoing_places |-> outgoing_places]

\* (mutant) __add_place without the name check
AddPlaceInnerMut(n, place) ==
    [net |-> [n EXCEPT !.places = @ \cup {place},
                       !.places_map = DictSet(@, place.name, place)],
     raised |-> "none"]

\* PetriNet.__add_place
AddPlaceInner(n, place) ==
    IF place.name \in DOMAIN n.places_map
    THEN [net |-> n, raised |-> "ValueError"]
    ELSE [net |-> [n EXCEPT !.places = @ \cup {place},
                            !.places_map = DictSet(@, place.name, place)],
          raised |-> "none"]

\* (mutant) __add_transition registering the transition before the checks
AddTransitionInnerMut(n, transition) ==
    [net |-> [n EXCEPT !.transitions = @ \cup {transition},
                       !.transitions_map = DictSet(@, transition.name, transition)],
     raised |-> IF \/ transition.name \in DOMAIN n.transitions_map
                   \/ ~(transition.incoming_places \subseteq n.places)
                   \/ ~(transition.outgoing_places \subseteq n.places)
                THEN "ValueError" ELSE "none"]

\* PetriNet.__add_transition
AddTransitionInner(n, transition) ==
    IF transition.name \in DOMAIN n.transitions_map
    THEN [net |-> n, raised |-> "ValueError"]
    ELSE IF \/ ~(\A place \in transition.incoming_places : place \in n.places)
            \/ ~(\A place \in transition.outgoing_places : place \in n.places)
    THEN [net |-> n, raised |-> "ValueError"]
    ELSE [net |-> [n EXCEPT !.transitions = @ \cup {transition},
                            !.transitions_map = DictSet(@, transition.name, transition)],
          raised |-> "none"]

\* PetriNet.add_place
AddPlace(n, name) == AddPlaceInner(n, NewPlace(n, name))

\* (mutant) add_transition looking the names up in __places_map
AddTransitionLookupMut(n, name, incoming_places, outgoing_places) ==
    IF incoming_places \cup outgoing_places \subseteq DOMAIN n.places_map
    THEN AddTransitionInner(n, NewTransition(n, name,
             {n.places_map[x] : x \in incoming_places},
             {n.places_map[x] : x \in outgoing_places}))
    ELSE [net |-> n, raised |-> "KeyError"]

\* PetriNet.add_transition
AddTransition(n, name, incoming_places, outgoing_places) ==
    AddTransitionInner(n, NewTransition(n, name,
        {place \in n.places : place.name \in incoming_places},
        {place \in n.places : place.name \in outgoing_places}))

\* (mutant) compile_marking dropping the names that are not in the net
CompileMarkingMut(n, marking) ==
    [raised |-> "none",
     value |-> [place \in {n.places_map[name] : name \in DOMAIN marking \cap DOMAIN n.places_map}
                  |-> marking[CHOOSE name \in DOMAIN marking \cap DOMAIN n.places_map :
                                  n.places_map[name] = place]]]

\* PetriNet.compile_marking
CompileMarking(n, marking) ==
    IF \A name \in DOMAIN marking : name \in DOMAIN n.places_map
    THEN [raised |-> "none",
          value |-> [place \in {n.places_map[name] : name \in DOMAIN marking}
                       |-> marking[CHOOSE name \in DOMAIN marking : n.places_map[name] = place]]]
    ELSE [raised |-> "KeyError", value |-> EmptyMap]

\* PetriNet.as_marked(marking) for a dictionary, on the net under construction
NetAsMarked(n, marking) ==
    Only({[raised |-> compiled.raised,
           value |-> IF compiled.raised = "none"
                     THEN [origin |-> 1, marking |-> compiled.value]
                     ELSE [origin |-> 0, marking |-> EmptyMap]] :
          compiled \in {CompileMarking(n, marking)}})

AddPlaceOp ==
    /\ \E name \in Places :
          \E r \in {AddPlace(petri_net, name)} :
              /\ petri_net' = r.net
              /\ ret' = [op |-> "add_place", name |-> name, raised |-> r.raised]
    /\ UNCHANGED <<reachFrozenNet, heap>>

AddTransitionOp ==
    /\ \E name \in TransNames, incoming_places \in SUBSET Places,
          outgoing_places \in SUBSET Places :
          \E r \in {AddTransition(petri_net, name, incoming_places, outgoing_places)} :
              /\ petri_net' = r.net
              /\ ret' = [op |-> "add_transition", name |-> name,
                         incoming_places |-> incoming_places,
                         outgoing_places |-> outgoing_places, raised |-> r.raised]
    /\ UNCHANGED <<reachFrozenNet, heap>>

NetAsMarkedOp ==
    /\ \E marking \in AsMarkedDicts :
          \E r \in {NetAsMarked(petri_net, marking)} :
              ret' = [op |-> "as_marked", marking |-> marking,
                      raised |-> r.raised, value |-> r.value]
    /\ UNCHANGED <<reachFrozenNet, heap, petri_net>>

NetInit ==
    /\ petri_net = EmptyNet
    /\ ret = [op |-> "none"]
    /\ pc = "net"
    /\ transitions = EmptyMap
    /\ obj_hash = [net |-> [n \in NetIds |-> 1], place |-> [p \in Places |-> 1]]
    /\ heap = <<>>
    /\ initial_marking = AsMarkedNone(1)
    /\ max_iterations = 0
    /\ throw_error = FALSE
    /\ node_marking = <<>>
    /\ incoming_nodes = <<>>
    /\ outgoing_nodes = <<>>
    /\ visited = {}
    /\ queue = <<>>
    /\ dead_ends = {}
    /\ it = 0
    /\ graph_nodes = {}

NetNext == AddPlaceOp \/ AddTransitionOp \/ NetAsMarkedOp

SpecNet == NetInit /\ [][NetNext]_vars

\* ---- C11 -----------------------------------------------------------------------
\* C11: can_fire(t) is true exactly when every incoming place of t holds a token,
\* whatever the other places hold; a transition without incoming places is
\* enabled in every marking, and firing it adds one token to each outgoing place
\* and removes none.
C11_CanFireRule ==
    /\ ret.op = "can_fire" =>
          /\ ret.value <=> \A place \in transitions[ret.t].incoming_places :
                              CountOrZero(heap[ret.a].marking, place) >= 1
          /\ transitions[ret.t].incoming_places = {} => ret.value
    /\ (ret.op = "fire" /\ transitions[ret.t].incoming_places = {}) =>
          \A place \in Places :
              CountOrZero(heap[ret.value].marking, place)
                = CountOrZero(heap[ret.a].marking, place)
                  + (IF place \in transitions[ret.t].outgoing_places THEN 1 ELSE 0)

\* can_fire returned true for a transition one of whose outgoing places, not an
\* incoming place, holds no token
C11_Witness ==
    /\ ret.op = "can_fire"
    /\ ret.value
    /\ transitions[ret.t].incoming_places # {}
    /\ \E place \in transitions[ret.t].outgoing_places \ transitions[ret.t].incoming_places :
          CountOrZero(heap[ret.a].marking, place) = 0

\* ---- C12 -----------------------------------------------------------------------
\* the names carried by a set of Place or Transition objects
NamesOf(S) == {x.name : x \in S}

\* C12: after any sequence of add_place and add_transition calls on an empty
\* net, failed ones included, no two places share a name, no two transitions
\* share a name, and every place in an arc set of a registered transition is a
\* place of the net.
C12_NetWellFormed ==
    pc = "net" =>
        /\ \A p, q \in petri_net.places : p.name = q.name => p = q
        /\ \A t, u \in petri_net.transitions : t.name = u.name => t = u
        /\ \A t \in petri_net.transitions :
              t.incoming_places \cup t.outgoing_places \subseteq petri_net.places

\* a call has just failed on a net of two places and two transitions, one of
\* which has arcs
C12_Witness ==
    /\ pc = "net"
    /\ ret.op \in {"add_place", "add_transition"}
    /\ ret.raised = "ValueError"
    /\ Cardinality(petri_net.places) = 2
    /\ Cardinality(petri_net.transitions) = 2
    /\ \E t \in petri_net.transitions : t.incoming_places # {} /\ t.outgoing_places # {}

\* ---- C13 -----------------------------------------------------------------------
\* C13: add_place with the name of a place of the net, and add_transition with
\* the name of a transition of the net, fail with an error and leave the place
\* set, the transition set and every arc set as they were.
C13_DuplicateNameRejected ==
    [][/\ (ret'.op = "add_place" /\ ret'.name \in NamesOf(petri_net.places)) =>
            (ret'.raised # "none" /\ petri_net' = petri_net)
       /\ (ret'.op = "add_transition" /\ ret'.name \in NamesOf(petri_net.transitions)) =>
            (ret'.raised # "none" /\ petri_net' = petri_net)]_vars

\* add_transition has just failed on a name that a transition with an incoming
\* place already carries
C13_Witness ==
    /\ pc = "net"
    /\ ret.op = "add_transition"
    /\ ret.raised = "ValueError"
    /\ \E t \in petri_net.transitions : t.name = ret.name /\ t.incoming_places # {}

\* ---- C14 -----------------------------------------------------------------------
\* C14: as_marked(token_counts) gives a marking where every named place holds the
\* given count and every other place of the net holds zero; when token_counts
\* names a place that is not in the net the call fails with an error and gives
\* no marking.
C14_AsMarked ==
    (pc = "net" /\ ret.op = "as_marked") =>
        IF DOMAIN ret.marking \subseteq NamesOf(petri_net.places)
        THEN /\ ret.raised = "none"
             /\ \A place \in petri_net.places :
                   Tokens(ret.value, place)
                     = IF place.name \in DOMAIN ret.marking THEN ret.marking[place.name] ELSE 0
        ELSE /\ ret.raised # "none"
             /\ ret.value.origin = 0

\* as_marked has just failed on a dictionary naming a place of the net, with a
\* positive count, and a name that is not in the net
C14_Witness ==
    /\ pc = "net"
    /\ ret.op = "as_marked"
    /\ ret.raised = "KeyError"
    /\ \E name \in DOMAIN ret.marking :
          name \in NamesOf(petri_net.places) /\ ret.marking[name] > 0

\* ---- C19 -----------------------------------------------------------------------
\* C19: add_transition never fails because of a place name that is not in the
\* net: it fails only on a transition name already in use, and otherwise
\* registers the transition with exactly the places of the net whose names were
\* given, the other names being ignored.
C19_UnknownPlaceNamesIgnored ==
    [][ret'.op = "add_transition" =>
         /\ ret'.raised # "none" <=> ret'.name \in NamesOf(petri_net.transitions)
         /\ ret'.raised = "none" =>
               /\ ret'.name \in DOMAIN petri_net'.transitions_map
               /\ petri_net'.transitions_map[ret'.name] \in petri_net'.transitions
               /\ petri_net'.transitions_map[ret'.name].incoming_places
                    = {place \in petri_net.places : place.name \in ret'.incoming_places}
               /\ petri_net'.transitions_map[ret'.name].outgoing_places
                    = {place \in petri_net.places : place.name \in ret'.outgoing_places}]_vars

\* add_transition has just registered a transition although one of the incoming
\* names it was given is not a place of the net, and another one is
C19_Witness ==
    /\ pc = "net"
    /\ ret.op = "add_transition"
    /\ ret.raised = "none"
    /\ \E name \in ret.incoming_places : name \notin NamesOf(petri_net.places)
    /\ petri_net.transitions_map[ret.name].incoming_places # {}

\* ---- C15 -----------------------------------------------------------------------
\* the net has one transition, from a place p back to p, and the initial marking
\* puts one token on p and none elsewhere
SelfLoopInput ==
    \E t \in DOMAIN transitions, p \in Places :
        /\ DOMAIN transitions = {t}
        /\ transitions[t].incoming_places = {p}
        /\ transitions[t].outgoing_places = {p}
        /\ TokenVector(initial_marking) = [place \in Places |-> IF place = p THEN 1 ELSE 0]

\* C15: on the net of one place p and one transition from p to p, started with
\* one token on p, the complete graph has exactly one node, which is its own
\* outgoing node, and no dead end; in general, when a firing at a node gives a
\* marking equal to the node's own, no new node is made for it and the
\* canonical node gets an edge to itself.
C15_SelfLoop ==
    /\ (Complete /\ SelfLoopInput) =>
          /\ Cardinality(graph_nodes) = 1
          /\ Len(node_marking) = 1
          /\ \A n \in graph_nodes : n \in outgoing_nodes[n]
          /\ dead_ends = {}
    /\ \A n \in visited :
          (\E t \in DOMAIN transitions :
              /\ EnabledAt(TokenVector(node_marking[n]), t)
              /\ FiringAt(TokenVector(node_marking[n]), t) = TokenVector(node_marking[n]))
          => /\ n \in outgoing_nodes[n]
             /\ n \in incoming_nodes[n]
             /\ \A x \in outgoing_nodes[n] :
                   TokenVector(node_marking[x]) = TokenVector(node_marking[n]) => x = n

\* the complete graph of the self-loop net: one node, its own outgoing node
C15_Witness ==
    /\ Complete
    /\ SelfLoopInput
    /\ graph_nodes = {1}
    /\ outgoing_nodes[1] = {1}

\* ---- C17 -----------------------------------------------------------------------
\* C17: started from a marking without negative counts, reachability fires
\* only enabled transitions: every node other than the root was made by firing
\* a transition enabled at a node it has as incoming node, and no marking of a
\* node, enqueued, visited or in the graph, has a negative count.
C17_NoNegativeCounts ==
    pc \in {"loop", "returned", "raised"} =>
        /\ \A n \in 1..Len(node_marking) :
              /\ \A place \in Places : Tokens(node_marking[n], place) >= 0
              /\ \A key \in DOMAIN node_marking[n].marking : node_marking[n].marking[key] >= 0
        /\ \A x \in 2..Len(node_marking) :
              \E n \in incoming_nodes[x] : \E t \in DOMAIN transitions :
                  /\ EnabledAt(TokenVector(node_marking[n]), t)
                  /\ FiringAt(TokenVector(node_marking[n]), t) = TokenVector(node_marking[x])

\* a returned graph with a node that was expanded while one of the transitions
\* was not enabled at it, an incoming place holding no token
C17_Witness ==
    /\ pc = "returned"
    /\ \E n \in graph_nodes :
          /\ outgoing_nodes[n] # {}
          /\ \E t \in DOMAIN transitions : \E place \in transitions[t].incoming_places :
                Tokens(node_marking[n], place) = 0

\* ---- C18 -----------------------------------------------------------------------
\* C18: a marking is recorded in visited at most once, and expanded at most
\* once; a dequeued node whose marking is already visited is skipped without a
\* change to visited, dead_ends, the edge sets of any node or the counter; the
\* canonical node of a marking stays the same once recorded.
C18_VisitedOnce ==
    [][/\ (queue # <<>> /\ VisitedHas(node_marking, visited, node_marking[Head(queue)]))
            => UNCHANGED <<visited, dead_ends, incoming_nodes, outgoing_nodes, it,
                           node_marking>>
       /\ visited \subseteq visited'
       /\ \A n \in visited' \ visited :
             ~\E m \in visited : TokenVector(node_marking[m]) = TokenVector(node_marking'[n])
       /\ \A a, b \in visited' :
             TokenVector(node_marking'[a]) = TokenVector(node_marking'[b]) => a = b
       /\ it' > it => Cardinality(visited' \ visited) = 1]_vars

\* the exploration is over and a node whose marking was already visited has
\* been dequeued and skipped
C18_Witness ==
    /\ pc = "returned"
    /\ queue = <<>>
    /\ \E x \in 1..Len(node_marking) :
          /\ x \notin visited
          /\ \E n \in visited : TokenVector(node_marking[n]) = TokenVector(node_marking[x])

\* ---- C20 -----------------------------------------------------------------------
\* C20: the returned graph is closed under its edges: every outgoing or incoming
\* node of a node of graph.nodes has the marking of some node of graph.nodes,
\* after a complete exploration and in the partial graph that lenient mode
\* returns at the bound.
C20_ClosedUnderEdges ==
    pc = "returned" =>
        \A n \in graph_nodes : \A x \in outgoing_nodes[n] \cup incoming_nodes[n] :
            NodeIn(node_marking, x, graph_nodes)

\* ---- C16 -----------------------------------------------------------------------
\* The exploration as a function of its input, every successor set iterated in
\* one fixed order.  s carries the node objects, visited, the queue, dead_ends,
\* the counter and whether the loop is still running.
RunInit ==
    [nm |-> <<initial_marking>>, inc |-> <<{}>>, out |-> <<{}>>, vis |-> {},
     q |-> <<1>>, dead |-> {}, it |-> 0, pc |-> "loop"]

\* the set available_markings returns for the markings fired, and the order the
\* for loop takes it in
FixedOrder(fired) ==
    CHOOSE order \in UNION {Orders(R) : R \in {Q \in SUBSET fired : IsMarkingSetOf(Q, fired)}} :
        TRUE

\* Lines 97-117: one pass of the while loop
RunPass(s) ==
    LET current == Head(s.q)
        fired == FiredMarkings(s.nm[current])
        vis == VisitedSet(s.nm, s.vis, current)
        st == ForLoop([nm |-> s.nm, inc |-> s.inc, out |-> s.out, q |-> PopLeft(s.q)],
                      vis, current, FixedOrder(fired))
    IN IF VisitedHas(s.nm, s.vis, s.nm[current])
       THEN [s EXCEPT !.q = PopLeft(s.q)]
       ELSE IF fired = {}
       THEN [s EXCEPT !.q = PopLeft(s.q), !.vis = vis,
                      !.dead = SetAddNode(s.nm, s.dead, current)]
       ELSE [nm |-> st.nm, inc |-> st.inc, out |-> st.out, vis |-> vis, q |-> st.q,
             dead |-> s.dead, it |-> s.it + 1,
             pc |-> IF BoundHit(s.it + 1, max_iterations) THEN "bound" ELSE "loop"]

\* Lines 96-117: the while loop
RECURSIVE RunToEnd(_)
RunToEnd(s) == IF s.pc # "loop" \/ s.q = <<>> THEN s ELSE RunToEnd(RunPass(s))

\* the structure of a graph: the markings of its nodes and dead ends, and its
\* edges as pairs of markings
GraphStructure(nm, inc, out, nodes, dead) ==
    LET vec(n) == [place \in Places |-> Tokens(nm[n], place)]
    IN [markings |-> {vec(n) : n \in nodes},
        dead_ends |-> {vec(d) : d \in dead},
        outgoing |-> UNION {{<<vec(n), vec(x)>> : x \in out[n]} : n \in nodes},
        incoming |-> UNION {{<<vec(n), vec(x)>> : x \in inc[n]} : n \in nodes}]

\* C16: the structure of the complete graph does not depend on the order the
\* successor sets are iterated in: whatever the orders taken, the node markings,
\* the dead ends and the outgoing and incoming edges are those of the
\* exploration that takes every successor set in the fixed order.
C16_OrderInsensitive ==
    Complete =>
        \E fixed \in {RunToEnd(RunInit)} :
            /\ fixed.pc = "loop"
            /\ GraphStructure(node_marking, incoming_nodes, outgoing_nodes, graph_nodes, dead_ends)
                 = GraphStructure(fixed.nm, fixed.inc, fixed.out, fixed.vis, fixed.dead)

====
